---- MODULE Spec2Model ----
(***************************************************************************)
(* Model of the QR food-storage application: the revision-chained item     *)
(* model of app/models.py and the request handlers of app/routes/items.py. *)
(*                                                                         *)
(* Conventions.                                                            *)
(*   - A Python str is a sequence of one-character strings, so that        *)
(*     str.strip() and the URL regular expression are computed.            *)
(*   - Optional[T] is a sequence of length 0 (None) or 1 (the value).      *)
(*   - A date is a day number; timedelta(days=n) is the integer n.         *)
(*   - A table is the set of its rows; a primary key is the row count + 1  *)
(*     (rows are never removed by any handler).                            *)
(***************************************************************************)
EXTENDS Integers, Sequences, FiniteSets, TLC

VARIABLES
    food_items,      \* table food_items: set of item ids (public_id is 1-1 with id)
    item_revisions,  \* table item_revisions: set of ItemRevision rows
    revision_links,  \* table revision_links: set of RevisionLink rows
    item_tags,       \* table item_tags: set of <<item_id, tag_id>>
    uploads,         \* files written under UPLOAD_DIR (photo store)
    made,            \* history: made[k] is the request that inserted revision row k
    sessions,        \* in-flight requests (used by the interleaved specification)
    response         \* outcome of the last completed request

vars == <<food_items, item_revisions, revision_links, item_tags, uploads, made,
          sessions, response>>

db == <<food_items, item_revisions, revision_links, item_tags>>

-----------------------------------------------------------------------------
(* Bounds of the model *)

MaxRevisions == 3
MaxUploads == 1
MaxSessions == 2

-----------------------------------------------------------------------------
(* Optional values and strings *)

None == <<>>
Some(x) == <<x>>
IsNone(o) == o = <<>>
Val(o) == o[1]

IsSpace(c) == c \in {" ", "\t", "\n"}

RECURSIVE lstrip(_)
lstrip(s) == IF s = <<>> THEN s
             ELSE IF IsSpace(Head(s)) THEN lstrip(Tail(s)) ELSE s

RECURSIVE rstrip(_)
rstrip(s) == IF s = <<>> THEN s
             ELSE IF IsSpace(s[Len(s)]) THEN rstrip(SubSeq(s, 1, Len(s) - 1)) ELSE s

\* str.strip()
strip(s) == rstrip(lstrip(s))

\* `x.strip() or None`
strip_or_none(s) == IF strip(s) = <<>> THEN None ELSE Some(strip(s))

\* str.lower() on the letters the model uses
LowerChar(c) ==
    CASE c = "H" -> "h" [] c = "T" -> "t" [] c = "P" -> "p" [] c = "S" -> "s"
      [] c = "A" -> "a" [] c = "B" -> "b"
      [] OTHER -> c

Lower(s) == [k \in 1..Len(s) |-> LowerChar(s[k])]

HasPrefixIgnoreCase(s, p) ==
    /\ Len(s) >= Len(p)
    /\ Lower(SubSeq(s, 1, Len(p))) = p

Drop(s, n) == SubSeq(s, n + 1, Len(s))

\* the part of the regular expression after the scheme:  [^\s/$.?#].[^\s]*$
\* (`.` is any character but a newline; `$` also matches before a final newline)
UrlRest(r) ==
    /\ Len(r) >= 2
    /\ ~IsSpace(r[1])
    /\ r[1] \notin {"/", "$", ".", "?", "#"}
    /\ r[2] # "\n"
    /\ \A k \in 3..Len(r) : ~IsSpace(r[k]) \/ (k = Len(r) /\ r[k] = "\n")

\* URL_RE.match(url) for  ^https?://[^\s/$.?#].[^\s]*$  with re.IGNORECASE
URL_RE_match(url) ==
    \/ /\ HasPrefixIgnoreCase(url, <<"h", "t", "t", "p", ":", "/", "/">>)
       /\ UrlRest(Drop(url, 7))
    \/ /\ HasPrefixIgnoreCase(url, <<"h", "t", "t", "p", "s", ":", "/", "/">>)
       /\ UrlRest(Drop(url, 8))

Min(a, b) == IF a <= b THEN a ELSE b

\* zip(link_urls, link_labels)
zip(xs, ys) == [k \in 1..Min(Len(xs), Len(ys)) |-> <<xs[k], ys[k]>>]

\* a wrong link loop: the label is stored as typed
RECURSIVE clean_links_raw_label(_)
clean_links_raw_label(pairs) ==
    IF pairs = <<>> THEN <<>>
    ELSE LET url == strip(Head(pairs)[1])
             label == Head(pairs)[2]
         IN  IF url = <<>> THEN clean_links_raw_label(Tail(pairs))
             ELSE IF ~URL_RE_match(url) THEN clean_links_raw_label(Tail(pairs))
             ELSE <<[url |-> url, label |-> Some(label)]>>
                  \o clean_links_raw_label(Tail(pairs))

\* the link loop of create_item / save_edit / reuse_label: the pairs kept
RECURSIVE clean_links(_)
clean_links(pairs) ==
    IF pairs = <<>> THEN <<>>
    ELSE LET url == strip(Head(pairs)[1])
             label == Head(pairs)[2]
         IN  IF url = <<>> THEN clean_links(Tail(pairs))
             ELSE IF ~URL_RE_match(url) THEN clean_links(Tail(pairs))
             ELSE <<[url |-> url, label |-> strip_or_none(label)]>>
                  \o clean_links(Tail(pairs))

\* the link loop: the errors appended, in order
RECURSIVE link_errors(_)
link_errors(pairs) ==
    IF pairs = <<>> THEN <<>>
    ELSE LET url == strip(Head(pairs)[1])
         IN  IF url = <<>> THEN link_errors(Tail(pairs))
             ELSE IF ~URL_RE_match(url)
                  THEN <<[msg |-> "Invalid URL", arg |-> url]>> \o link_errors(Tail(pairs))
             ELSE link_errors(Tail(pairs))

-----------------------------------------------------------------------------
(* Photo store (app/photo.py) *)

ALLOWED_EXTENSIONS == {".jpg", ".jpeg", ".png", ".gif", ".webp"}
MAX_SIZE_BYTES == 10 * 1024 * 1024

\* Path(filename).suffix.lower() on the suffixes the model uses
SuffixLower(ext) == CASE ext = ".JPG" -> ".jpg" [] ext = ".PNG" -> ".png" [] OTHER -> ext

\* `photo and photo.filename`
HasUpload(photo) == ~IsNone(photo) /\ Val(photo).filename # ""

\* save_photo raises ValueError: the message, or None when the file is saved
save_photo_error(file) ==
    IF SuffixLower(file.suffix) \notin ALLOWED_EXTENSIONS
    THEN Some([msg |-> "File type not allowed", arg |-> <<SuffixLower(file.suffix)>>])
    ELSE IF file.size > MAX_SIZE_BYTES
    THEN Some([msg |-> "File too large (max 10 MB)", arg |-> <<>>])
    ELSE None

\* the name save_photo stores the file under: a fresh uuid4 plus the suffix
save_photo_name(file, stored) ==
    [uuid |-> Cardinality(stored) + 1, ext |-> SuffixLower(file.suffix)]

-----------------------------------------------------------------------------
(* Reference data (app/seed.py) *)

\* seed_locations: "Pantry", "Fridge", "Freezer" get the ids 1..3
DEFAULT_LOCATIONS == <<"Pantry", "Fridge", "Freezer">>
storage_locations == {[id |-> k, name |-> DEFAULT_LOCATIONS[k]] : k \in 1..Len(DEFAULT_LOCATIONS)}

\* seed_tags: both seeded tags are default tags
DEFAULT_TAGS == <<[name |-> "Prepared Meals", is_default |-> TRUE],
                  [name |-> "Snacks", is_default |-> TRUE]>>
tags == {[id |-> k, name |-> DEFAULT_TAGS[k].name, is_default |-> DEFAULT_TAGS[k].is_default] :
            k \in 1..Len(DEFAULT_TAGS)}

-----------------------------------------------------------------------------
(* The ORM model (app/models.py) *)

\* an ItemRevision row; is_deleted defaults to False
ItemRevision(id, item_id, revision_num, name, date_prepared, expiration_date, storage_location_id, photo_filename, notes, amount, amount_unit, deleted) ==
    [id |-> id, item_id |-> item_id, revision_num |-> revision_num, name |-> name,
     date_prepared |-> date_prepared, expiration_date |-> expiration_date,
     storage_location_id |-> storage_location_id, photo_filename |-> photo_filename,
     notes |-> notes, amount |-> amount, amount_unit |-> amount_unit,
     is_deleted |-> deleted]

\* a RevisionLink row
RevisionLink(id, revision_id, url, label) ==
    [id |-> id, revision_id |-> revision_id, url |-> url, label |-> label]

\* a wrong db.add: the item's latest row is updated in place instead of a row inserted
db_add_in_place(table, row) ==
    {r \in table : r.item_id # row.item_id \/ r.revision_num + 1 # row.revision_num}
        \cup {row}

\* db.add(revision): the row is inserted
db_add(table, row) == table \cup {row}

\* history entry: the handler that inserted a revision and the form it was sent
Made(handler, form) == [handler |-> handler, form |-> form]

\* the rows of one item in a revisions table
RevisionsOf(table, item_id) == {r \in table : r.item_id = item_id}

\* the rows of one revision in a links table
LinksOf(table, revision_id) == {l \in table : l.revision_id = revision_id}

\* the (url, label) content of a set of link rows, as a bag would hold it:
\* the number of rows per content
LinkContent(rows) ==
    [c \in {[url |-> l.url, label |-> l.label] : l \in rows} |->
        Cardinality({l \in rows : l.url = c.url /\ l.label = c.label})]

\* FoodItem.revisions: relationship(order_by="ItemRevision.revision_num").
\* Rows with equal revision_num come back in an order the database chooses,
\* so the relationship is any of the lists sorted by revision_num.
RECURSIVE Orderings(_)
Orderings(rows) ==
    IF rows = {} THEN {<<>>}
    ELSE UNION {{<<r>> \o t : t \in Orderings(rows \ {r})} :
                r \in {m \in rows : \A o \in rows : m.revision_num <= o.revision_num}}

\* FoodItem.latest_revision
latest_revision(revisions) ==
    IF revisions # <<>> THEN Some(revisions[Len(revisions)]) ELSE None

\* a wrong latest_active_revision: the list is scanned forward
RECURSIVE latest_active_revision_forward(_)
latest_active_revision_forward(revisions) ==
    IF revisions = <<>> THEN None
    ELSE IF ~Head(revisions).is_deleted THEN Some(Head(revisions))
    ELSE latest_active_revision_forward(Tail(revisions))

\* FoodItem.latest_active_revision: scan reversed(self.revisions)
RECURSIVE latest_active_revision(_)
latest_active_revision(revisions) ==
    IF revisions = <<>> THEN None
    ELSE IF ~revisions[Len(revisions)].is_deleted THEN Some(revisions[Len(revisions)])
    ELSE latest_active_revision(SubSeq(revisions, 1, Len(revisions) - 1))

\* a wrong is_deleted: deleted as soon as any revision is
is_deleted_any(revisions) == \E k \in 1..Len(revisions) : revisions[k].is_deleted

\* FoodItem.is_deleted
is_deleted(revisions) ==
    LET latest == latest_revision(revisions)
    IN  IF ~IsNone(latest) THEN Val(latest).is_deleted ELSE FALSE

\* `a or b` on Optional values
OrElse(a, b) == IF ~IsNone(a) THEN a ELSE b

\* _get_item_or_404: the FoodItem with revisions, their links and the tags
\* eagerly loaded (joinedload), as the possible loaded objects; empty = 404
get_item(public_id) ==
    IF public_id \notin food_items THEN {}
    ELSE {[id |-> public_id,
           revisions |-> revs,
           links |-> {l \in revision_links :
                        \E r \in RevisionsOf(item_revisions, public_id) : l.revision_id = r.id},
           tags |-> {t[2] : t \in {x \in item_tags : x[1] = public_id}}] :
          revs \in Orderings(RevisionsOf(item_revisions, public_id))}

-----------------------------------------------------------------------------
(* Responses *)

\* what the client receives: the status, the template of a rendered page,
\* the errors it lists, the form or query it answers and the page's content
Redirect == [status |-> 303, page |-> "", errors |-> <<>>, form |-> <<>>, context |-> <<>>]
NotFound == [status |-> 404, page |-> "", errors |-> <<>>, form |-> <<>>, context |-> <<>>]
ServerError == [status |-> 500, page |-> "", errors |-> <<>>, form |-> <<>>, context |-> <<>>]
ErrorPage(page, errors, form) ==
    [status |-> 200, page |-> page, errors |-> errors, form |-> form, context |-> <<>>]

\* the dashboard page: the query parameters and what the template is given
ListPage(params, context) ==
    [status |-> 200, page |-> "items/list.html", errors |-> <<>>, form |-> params,
     context |-> context]

-----------------------------------------------------------------------------
(* Request inputs *)

NoPhoto == None
EmptyUpload == Some([filename |-> "", suffix |-> "", size |-> 0])
GoodPhoto == Some([filename |-> "soup.JPG", suffix |-> ".JPG", size |-> 1024])
BadTypePhoto == Some([filename |-> "soup.pdf", suffix |-> ".pdf", size |-> 1024])
BigPhoto == Some([filename |-> "soup.png", suffix |-> ".png", size |-> MAX_SIZE_BYTES + 1])

UrlGood == <<" ", "h", "t", "t", "p", "s", ":", "/", "/", "a", ".", "t", "/", "b", " ">>
UrlUpper == <<"H", "T", "T", "P", ":", "/", "/", "a", "b">>
UrlBad == <<"n", "o", "t", "-", "a", "-", "u", "r", "l">>
UrlBlank == <<" ", " ">>
UrlExample == <<" ", "h", "t", "t", "p", "s", ":", "/", "/", "a", ".", "t", "e", "s", "t", "/", "b", " ">>

\* a form as the browser posts it to create_item, save_edit or reuse_label
PlainForm ==
    [name |-> <<"a">>, date_prepared |-> 10, expiration_date |-> None,
     storage_location_id |-> 1, link_urls |-> <<>>, link_labels |-> <<>>,
     notes |-> <<>>, amount |-> None, amount_unit |-> <<>>, tag_ids |-> <<>>,
     photo |-> NoPhoto, keep_photo |-> FALSE]

RichForm ==
    [name |-> <<" ", "b", " ">>, date_prepared |-> 12, expiration_date |-> Some(13),
     storage_location_id |-> 2,
     link_urls |-> <<UrlGood, UrlBlank, UrlUpper>>,
     link_labels |-> <<<<" ", "Y", " ">>, <<"z">>, <<" ">>>>,
     notes |-> <<" ", "n">>, amount |-> Some(2), amount_unit |-> <<"g", " ">>,
     tag_ids |-> <<2, 9>>, photo |-> GoodPhoto, keep_photo |-> FALSE]

\* an edit that keeps the photo, posts an empty file field and one link
KeepForm ==
    [PlainForm EXCEPT !.keep_photo = TRUE, !.photo = EmptyUpload, !.link_urls = <<UrlGood>>,
                      !.link_labels = <<<<"Y">>>>, !.tag_ids = <<1>>]

ValidForms == {PlainForm, RichForm}

\* blank name, expiration before preparation, two invalid URLs, and a photo
AllInvalidForm ==
    [RichForm EXCEPT !.name = <<" ">>, !.expiration_date = Some(11),
                     !.link_urls = <<UrlBad, UrlGood, <<"f", "t", "p", ":", "/", "/", "a", "b">>>>]

\* an expiration date before the preparation date
EarlyExpirationForm == [PlainForm EXCEPT !.expiration_date = Some(9)]

\* an invalid and a valid URL, and a file that is no image
BadLinkForm ==
    [PlainForm EXCEPT !.photo = BadTypePhoto, !.link_urls = <<UrlBad, UrlExample>>,
                      !.link_labels = <<<<"x">>, <<"Y">>>>]

\* a file over the size limit
BigPhotoForm == [PlainForm EXCEPT !.photo = BigPhoto]

InvalidForms == {AllInvalidForm, EarlyExpirationForm, BadLinkForm, BigPhotoForm}

\* a form that names a storage location that does not exist
UnknownLocationForm == [PlainForm EXCEPT !.storage_location_id = 9, !.photo = GoodPhoto]

CreateForms == ValidForms \cup InvalidForms \cup {UnknownLocationForm}

EditForms ==
    ValidForms \cup {BadLinkForm, KeepForm, [RichForm EXCEPT !.keep_photo = TRUE]}

ReuseForms == ValidForms \cup {EarlyExpirationForm}

\* the form of the quick amount update
AmountForms ==
    {[amount |-> None, amount_unit |-> <<" ">>],
     [amount |-> Some(5), amount_unit |-> <<" ", "k", "g">>]}

\* the public ids requests name: those of the items, and one that does not exist
PublicIds == 1..(Cardinality(food_items) + 1)

-----------------------------------------------------------------------------
(* Validation shared by create_item, save_edit and reuse_label *)

\* a wrong default: the submitted expiration date is ignored
exp_of_default_always(form) == form.date_prepared + 7

\* exp = expiration_date or (date_prepared + timedelta(days=7))
exp_of(form) ==
    IF ~IsNone(form.expiration_date) THEN Val(form.expiration_date)
    ELSE form.date_prepared + 7

name_errors(form) ==
    IF strip(form.name) = <<>> THEN <<[msg |-> "Name is required.", arg |-> <<>>]>> ELSE <<>>

\* a wrong date check: the expiration date is compared only when it is defaulted
date_errors_default_only(form) ==
    IF IsNone(form.expiration_date) /\ exp_of(form) < form.date_prepared
    THEN <<[msg |-> "Expiration date must be on or after date prepared.", arg |-> <<>>]>>
    ELSE <<>>

\* if exp < date_prepared: errors.append(...)
date_errors(form) ==
    IF exp_of(form) < form.date_prepared
    THEN <<[msg |-> "Expiration date must be on or after date prepared.", arg |-> <<>>]>>
    ELSE <<>>

\* the try/except around save_photo: the error appended
photo_errors(form) ==
    IF HasUpload(form.photo) /\ ~IsNone(save_photo_error(Val(form.photo)))
    THEN <<Val(save_photo_error(Val(form.photo)))>>
    ELSE <<>>

\* save_photo reached dest.write_bytes
photo_written(form) ==
    HasUpload(form.photo) /\ IsNone(save_photo_error(Val(form.photo)))

\* the upload directory after the photo step
uploads_after(form, stored) ==
    IF photo_written(form) THEN stored \cup {save_photo_name(Val(form.photo), stored)}
    ELSE stored

\* a wrong validation that stops at the first failing check
form_errors_first_failure(form) ==
    IF name_errors(form) # <<>> THEN name_errors(form)
    ELSE IF date_errors(form) # <<>> THEN date_errors(form)
    ELSE IF link_errors(zip(form.link_urls, form.link_labels)) # <<>>
    THEN <<Head(link_errors(zip(form.link_urls, form.link_labels)))>>
    ELSE photo_errors(form)

\* the errors list when `if errors:` is reached
form_errors(form) ==
    name_errors(form) \o date_errors(form)
      \o link_errors(zip(form.link_urls, form.link_labels)) \o photo_errors(form)

\* photo_filename of create_item and reuse_label
uploaded_filename(form, stored) ==
    IF photo_written(form) THEN Some(save_photo_name(Val(form.photo), stored)) ELSE None

\* the rows `for url, label in clean_links: db.add(RevisionLink(...))` inserts
new_link_rows(table, revision_id, links) ==
    {RevisionLink(Cardinality(table) + k, revision_id, links[k].url, links[k].label) :
        k \in 1..Len(links)}

\* Tag.id.in_(tag_ids): the ids of the existing tags among tag_ids
existing_tag_ids(tag_ids) ==
    {t.id : t \in {x \in tags : \E k \in 1..Len(tag_ids) : tag_ids[k] = x.id}}

\* StorageLocation.id of the rows of storage_locations
location_ids == {l.id : l \in storage_locations}

\* db.commit() of a revision whose storage_location_id (a ForeignKey to
\* storage_locations.id that no handler looks up) names no row: a database
\* that enforces foreign keys raises IntegrityError, one that does not
\* (SQLite unless the pragma is set) stores the row
commit_outcomes(storage_location_id) ==
    IF storage_location_id \in location_ids THEN {"committed"}
    ELSE {"committed", "IntegrityError"}

\* a wrong revision_num: the increment is forgotten
next_revision_num_same(prev) == IF ~IsNone(prev) THEN Val(prev).revision_num ELSE 1

\* revision_num of an appended revision: (prev.revision_num + 1) if prev else 1
next_revision_num(prev) == IF ~IsNone(prev) THEN Val(prev).revision_num + 1 ELSE 1

\* room left in the bounded model for a request that may write a photo
UploadRoom(form) == photo_written(form) => Cardinality(uploads) < MaxUploads

\* room left in the bounded model for one more revision row
RevisionRoom == Cardinality(item_revisions) < MaxRevisions

-----------------------------------------------------------------------------
(* create_item: POST /items *)

\* a wrong session: the flushed rows stay when the request fails
rollback_kept(table, flushed) == table \cup flushed

\* a table after a request that raised before db.commit(): the session is
\* closed without a commit, so the rows it flushed are rolled back
rollback(table, flushed) == table

create_item(form) ==
    \E outcome \in commit_outcomes(form.storage_location_id) :
    /\ UploadRoom(form)
    /\ uploads' = uploads_after(form, uploads)
    /\ UNCHANGED sessions
    /\ IF form_errors(form) # <<>>
       THEN /\ response' = ErrorPage("items/create.html", form_errors(form), form)
            /\ UNCHANGED <<db, made>>
       ELSE IF outcome = "IntegrityError"
       THEN /\ response' = ServerError
            /\ food_items' = rollback(food_items, {Cardinality(food_items) + 1})
            /\ UNCHANGED <<item_revisions, revision_links, item_tags, made>>
       ELSE /\ RevisionRoom
            /\ LET item_id == Cardinality(food_items) + 1
                   revision ==
                       ItemRevision(Cardinality(item_revisions) + 1, item_id, 1,
                                    strip(form.name), form.date_prepared,
                                    Some(exp_of(form)), form.storage_location_id,
                                    uploaded_filename(form, uploads),
                                    strip_or_none(form.notes), form.amount,
                                    strip_or_none(form.amount_unit), FALSE)
               IN  /\ food_items' = food_items \cup {item_id}
                   /\ item_tags' =
                        IF form.tag_ids # <<>>
                        THEN item_tags \cup {<<item_id, t>> : t \in existing_tag_ids(form.tag_ids)}
                        ELSE item_tags
                   /\ item_revisions' = db_add(item_revisions, revision)
                   /\ revision_links' = revision_links \cup
                        new_link_rows(revision_links, revision.id,
                                      clean_links(zip(form.link_urls, form.link_labels)))
                   /\ made' = Append(made, Made("create_item", form))
                   /\ response' = Redirect

-----------------------------------------------------------------------------
(* The handlers that append a revision.  Each is written as the part that  *)
(* runs on the FoodItem `item` that _get_item_or_404 loaded.               *)

Days == {11}

Unknown == <<"U", "n", "k", "n", "o", "w", "n">>

\* a set of link rows as the list the ORM iterates (here: by primary key)
RECURSIVE SeqById(_)
SeqById(rows) ==
    IF rows = {} THEN <<>>
    ELSE LET first == CHOOSE l \in rows : \A o \in rows : l.id <= o.id
         IN  <<first>> \o SeqById(rows \ {first})

\* `for link in prev.links: db.add(RevisionLink(revision_id=revision.id, ...))`
copy_link_rows(table, revision_id, source_links) ==
    new_link_rows(table, revision_id, SeqById(source_links))

\* a wrong assignment: the submitted tags are added to those the item has
set_item_tags_added(table, item_id, tag_id_set) ==
    table \cup {<<item_id, t>> : t \in tag_id_set}

\* item.tags = ... : the association rows of the item replaced
set_item_tags(table, item_id, tag_id_set) ==
    {x \in table : x[1] # item_id} \cup {<<item_id, t>> : t \in tag_id_set}

\* photo_filename of save_edit
edit_photo_filename(form, prev_rev, stored) ==
    IF HasUpload(form.photo) THEN uploaded_filename(form, stored)
    ELSE IF form.keep_photo /\ ~IsNone(prev_rev) THEN Val(prev_rev).photo_filename
    ELSE None

\* a wrong save_edit: the submitted links are merged with those of the previous revision
edit_link_rows_merged(table, revision_id, form, item) ==
    LET prev_rev == latest_revision(item.revisions)
        kept == IF IsNone(prev_rev) THEN <<>>
                ELSE [k \in 1..Len(SeqById(LinksOf(item.links, Val(prev_rev).id))) |->
                        [url |-> SeqById(LinksOf(item.links, Val(prev_rev).id))[k].url,
                         label |-> SeqById(LinksOf(item.links, Val(prev_rev).id))[k].label]]
    IN  new_link_rows(table, revision_id,
                      kept \o clean_links(zip(form.link_urls, form.link_labels)))

\* the link set save_edit attaches to the new revision
edit_link_rows(table, revision_id, form, item) ==
    new_link_rows(table, revision_id, clean_links(zip(form.link_urls, form.link_labels)))

\* save_edit: POST /i/{public_id}/edit, after the item is loaded
save_edit_write(item, form) ==
    \E outcome \in commit_outcomes(form.storage_location_id) :
    LET prev_rev == latest_revision(item.revisions)
    IN  /\ uploads' = uploads_after(form, uploads)
        /\ IF form_errors(form) # <<>>
           THEN /\ response' = ErrorPage("items/edit.html", form_errors(form), form)
                /\ UNCHANGED <<db, made>>
           ELSE IF outcome = "IntegrityError"
           THEN /\ response' = ServerError
                /\ UNCHANGED <<db, made>>
           ELSE LET revision ==
                        ItemRevision(Cardinality(item_revisions) + 1, item.id,
                                     next_revision_num(prev_rev),
                                     strip(form.name), form.date_prepared,
                                     Some(exp_of(form)), form.storage_location_id,
                                     edit_photo_filename(form, prev_rev, uploads),
                                     strip_or_none(form.notes), form.amount,
                                     strip_or_none(form.amount_unit), FALSE)
                IN  /\ RevisionRoom
                    /\ item_tags' =
                         IF form.tag_ids # <<>>
                         THEN set_item_tags(item_tags, item.id, existing_tag_ids(form.tag_ids))
                         ELSE set_item_tags(item_tags, item.id, {})
                    /\ item_revisions' = db_add(item_revisions, revision)
                    /\ revision_links' = revision_links \cup
                         edit_link_rows(revision_links, revision.id, form, item)
                    /\ made' = Append(made, Made("save_edit", form))
                    /\ response' = Redirect
                    /\ UNCHANGED food_items

\* a wrong update_amount: is_deleted is left to its default
update_amount_revision_default_flag(id, item, form, today) ==
    LET prev == latest_revision(item.revisions)
    IN  IF ~IsNone(prev)
        THEN ItemRevision(id, item.id, next_revision_num(prev), Val(prev).name,
                          Val(prev).date_prepared, Val(prev).expiration_date,
                          Val(prev).storage_location_id, Val(prev).photo_filename,
                          Val(prev).notes, form.amount, strip_or_none(form.amount_unit),
                          FALSE)
        ELSE ItemRevision(id, item.id, next_revision_num(prev), Unknown, today, None, 1,
                          None, None, form.amount, strip_or_none(form.amount_unit), FALSE)

\* the revision update_amount builds
update_amount_revision(id, item, form, today) ==
    LET prev == latest_revision(item.revisions)
    IN  IF ~IsNone(prev)
        THEN ItemRevision(id, item.id, next_revision_num(prev), Val(prev).name,
                          Val(prev).date_prepared, Val(prev).expiration_date,
                          Val(prev).storage_location_id, Val(prev).photo_filename,
                          Val(prev).notes, form.amount, strip_or_none(form.amount_unit),
                          Val(prev).is_deleted)
        ELSE ItemRevision(id, item.id, next_revision_num(prev), Unknown, today, None, 1,
                          None, None, form.amount, strip_or_none(form.amount_unit), FALSE)

\* the links update_amount copies: those of prev
update_amount_links(table, revision_id, item) ==
    LET prev == latest_revision(item.revisions)
    IN  IF ~IsNone(prev)
        THEN copy_link_rows(table, revision_id, LinksOf(item.links, Val(prev).id))
        ELSE {}

\* update_amount: POST /i/{public_id}/amount, after the item is loaded
update_amount_write(item, form, today) ==
    LET revision == update_amount_revision(Cardinality(item_revisions) + 1, item, form, today)
    IN  /\ RevisionRoom
        /\ item_revisions' = db_add(item_revisions, revision)
        /\ revision_links' = revision_links \cup
             update_amount_links(revision_links, revision.id, item)
        /\ made' = Append(made, Made("update_amount", form))
        /\ response' = Redirect
        /\ UNCHANGED <<food_items, item_tags, uploads>>

\* a wrong soft_delete: the deleted copy takes the number of the revision it copies
soft_delete_revision_same_num(id, item, today) ==
    LET prev == latest_revision(item.revisions)
    IN  IF ~IsNone(prev)
        THEN ItemRevision(id, item.id, Val(prev).revision_num, Val(prev).name,
                          Val(prev).date_prepared, Val(prev).expiration_date,
                          Val(prev).storage_location_id, Val(prev).photo_filename,
                          Val(prev).notes, Val(prev).amount, Val(prev).amount_unit, TRUE)
        ELSE ItemRevision(id, item.id, 1, Unknown, today, None, 1,
                          None, None, None, None, TRUE)

\* the revision soft_delete builds
soft_delete_revision(id, item, today) ==
    LET prev == latest_revision(item.revisions)
    IN  IF ~IsNone(prev)
        THEN ItemRevision(id, item.id, next_revision_num(prev), Val(prev).name,
                          Val(prev).date_prepared, Val(prev).expiration_date,
                          Val(prev).storage_location_id, Val(prev).photo_filename,
                          Val(prev).notes, Val(prev).amount, Val(prev).amount_unit, TRUE)
        ELSE ItemRevision(id, item.id, next_revision_num(prev), Unknown, today, None, 1,
                          None, None, None, None, TRUE)

\* the link rows soft_delete inserts: it adds the revision and commits
soft_delete_links(table, revision_id, item) == {}

\* soft_delete: POST /i/{public_id}/delete, after the item is loaded
soft_delete_write(item, today) ==
    LET revision == soft_delete_revision(Cardinality(item_revisions) + 1, item, today)
    IN  /\ RevisionRoom
        /\ item_revisions' = db_add(item_revisions, revision)
        /\ revision_links' = revision_links \cup
             soft_delete_links(revision_links, revision.id, item)
        /\ made' = Append(made, Made("soft_delete", None))
        /\ response' = Redirect
        /\ UNCHANGED <<food_items, item_tags, uploads>>

\* a wrong restore: the source is the latest revision, deleted or not
restore_source_latest(item) == latest_revision(item.revisions)

\* source = item.latest_active_revision or item.latest_revision
restore_source(item) ==
    OrElse(latest_active_revision(item.revisions), latest_revision(item.revisions))

\* a wrong restore: the quantity of the source is not carried over
restore_revision_without_amount(id, item) ==
    LET source == Val(restore_source(item))
        prev == latest_revision(item.revisions)
    IN  ItemRevision(id, item.id, next_revision_num(prev), source.name,
                     source.date_prepared, source.expiration_date,
                     source.storage_location_id, source.photo_filename, source.notes,
                     None, None, FALSE)

\* the revision restore_item builds from `source`
restore_revision(id, item) ==
    LET source == Val(restore_source(item))
        prev == latest_revision(item.revisions)
    IN  ItemRevision(id, item.id, next_revision_num(prev), source.name,
                     source.date_prepared, source.expiration_date,
                     source.storage_location_id, source.photo_filename, source.notes,
                     source.amount, source.amount_unit, FALSE)

\* the links restore_item copies: those of `source`
restore_links(table, revision_id, item) ==
    copy_link_rows(table, revision_id, LinksOf(item.links, Val(restore_source(item)).id))

\* restore_item: POST /i/{public_id}/restore, after the item is loaded
restore_item_write(item) ==
    IF IsNone(restore_source(item))
    THEN \* source is None: source.name raises AttributeError, nothing is committed
         /\ response' = ServerError
         /\ UNCHANGED <<db, made, uploads>>
    ELSE LET revision == restore_revision(Cardinality(item_revisions) + 1, item)
         IN  /\ RevisionRoom
             /\ item_revisions' = db_add(item_revisions, revision)
             /\ revision_links' = revision_links \cup
                  restore_links(revision_links, revision.id, item)
             /\ made' = Append(made, Made("restore_item", None))
             /\ response' = Redirect
             /\ UNCHANGED <<food_items, item_tags, uploads>>

\* a wrong reuse: with no upload it keeps the photo of the revision before
reuse_photo_filename_kept(form, prev, stored) ==
    IF HasUpload(form.photo) THEN uploaded_filename(form, stored)
    ELSE IF ~IsNone(prev) THEN Val(prev).photo_filename
    ELSE None

\* the photo of a reused label: the new upload or none (prev is not consulted)
reuse_photo_filename(form, prev, stored) ==
    uploaded_filename(form, stored)

\* reuse_label: POST /i/{public_id}/reuse, after the item is loaded
reuse_label_write(item, form) ==
    \E outcome \in commit_outcomes(form.storage_location_id) :
    LET prev == latest_revision(item.revisions)
    IN  /\ uploads' = uploads_after(form, uploads)
        /\ IF form_errors(form) # <<>>
           THEN /\ response' = ErrorPage("items/reuse.html", form_errors(form), form)
                /\ UNCHANGED <<db, made>>
           ELSE IF outcome = "IntegrityError"
           THEN /\ response' = ServerError
                /\ UNCHANGED <<db, made>>
           ELSE LET revision ==
                        ItemRevision(Cardinality(item_revisions) + 1, item.id,
                                     next_revision_num(prev),
                                     strip(form.name), form.date_prepared,
                                     Some(exp_of(form)), form.storage_location_id,
                                     reuse_photo_filename(form, prev, uploads),
                                     strip_or_none(form.notes), form.amount,
                                     strip_or_none(form.amount_unit), FALSE)
                IN  /\ RevisionRoom
                    /\ item_revisions' = db_add(item_revisions, revision)
                    /\ revision_links' = revision_links \cup
                         new_link_rows(revision_links, revision.id,
                                       clean_links(zip(form.link_urls, form.link_labels)))
                    /\ made' = Append(made, Made("reuse_label", form))
                    /\ response' = Redirect
                    /\ UNCHANGED <<food_items, item_tags>>

\* a request for a public_id that _get_item_or_404 does not find
not_found ==
    /\ response' = NotFound
    /\ UNCHANGED <<db, made, uploads>>

-----------------------------------------------------------------------------
(* Requests executed one at a time: each handler is one step *)

save_edit(public_id, form) ==
    /\ UploadRoom(form)
    /\ UNCHANGED sessions
    /\ IF get_item(public_id) = {} THEN not_found
       ELSE \E item \in get_item(public_id) : save_edit_write(item, form)

update_amount(public_id, form, today) ==
    /\ UNCHANGED sessions
    /\ IF get_item(public_id) = {} THEN not_found
       ELSE \E item \in get_item(public_id) : update_amount_write(item, form, today)

soft_delete(public_id, today) ==
    /\ UNCHANGED sessions
    /\ IF get_item(public_id) = {} THEN not_found
       ELSE \E item \in get_item(public_id) : soft_delete_write(item, today)

restore_item(public_id) ==
    /\ UNCHANGED sessions
    /\ IF get_item(public_id) = {} THEN not_found
       ELSE \E item \in get_item(public_id) : restore_item_write(item)

reuse_label(public_id, form) ==
    /\ UploadRoom(form)
    /\ UNCHANGED sessions
    /\ IF get_item(public_id) = {} THEN not_found
       ELSE \E item \in get_item(public_id) : reuse_label_write(item, form)

Idle == [pc |-> "idle"]

Init ==
    /\ food_items = {}
    /\ item_revisions = {}
    /\ revision_links = {}
    /\ item_tags = {}
    /\ uploads = {}
    /\ made = <<>>
    /\ sessions = [s \in 1..MaxSessions |-> Idle]
    /\ response = Redirect

Next ==
    \/ \E form \in CreateForms : create_item(form)
    \/ \E public_id \in PublicIds, form \in EditForms : save_edit(public_id, form)
    \/ \E public_id \in PublicIds, form \in AmountForms, today \in Days :
          update_amount(public_id, form, today)
    \/ \E public_id \in PublicIds, today \in Days : soft_delete(public_id, today)
    \/ \E public_id \in PublicIds : restore_item(public_id)
    \/ \E public_id \in PublicIds, form \in ReuseForms : reuse_label(public_id, form)

Spec == Init /\ [][Next]_vars

-----------------------------------------------------------------------------
(* Requests served concurrently.  Each request has its own Session          *)
(* (Depends(get_db)).  A handler first loads the item with its revisions    *)
(* (_get_item_or_404) and later inserts the new revision and commits; no    *)
(* handler locks the item, retries, or relies on a uniqueness constraint on *)
(* (item_id, revision_num) (there is none on ItemRevision), so other        *)
(* requests may commit between the two steps.  The `def` handlers run in    *)
(* worker threads; the `async def` handlers run on the event loop, where    *)
(* two of them do not interleave unless one awaits.                         *)

SyncHandlers == {"update_amount", "soft_delete", "restore_item"}
AsyncHandlers == {"save_edit", "reuse_label"}

InFlight(s) == sessions[s].pc = "loaded"

\* item = _get_item_or_404(public_id, db) of the handler `handler`
begin_request(s, handler, public_id, form, today) ==
    /\ ~InFlight(s)
    /\ handler \in AsyncHandlers =>
          \A t \in DOMAIN sessions : InFlight(t) => sessions[t].handler \in SyncHandlers
    /\ IF get_item(public_id) = {}
       THEN not_found /\ UNCHANGED sessions
       ELSE /\ \E item \in get_item(public_id) :
                 sessions' = [sessions EXCEPT ![s] =
                                [pc |-> "loaded", handler |-> handler, item |-> item,
                                 form |-> form, today |-> today]]
            /\ UNCHANGED <<db, made, uploads, response>>

finish_save_edit(s) ==
    /\ InFlight(s) /\ sessions[s].handler = "save_edit"
    /\ UploadRoom(sessions[s].form)
    /\ save_edit_write(sessions[s].item, sessions[s].form)
    /\ sessions' = [sessions EXCEPT ![s] = Idle]

finish_update_amount(s) ==
    /\ InFlight(s) /\ sessions[s].handler = "update_amount"
    /\ update_amount_write(sessions[s].item, sessions[s].form, sessions[s].today)
    /\ sessions' = [sessions EXCEPT ![s] = Idle]

finish_soft_delete(s) ==
    /\ InFlight(s) /\ sessions[s].handler = "soft_delete"
    /\ soft_delete_write(sessions[s].item, sessions[s].today)
    /\ sessions' = [sessions EXCEPT ![s] = Idle]

finish_restore_item(s) ==
    /\ InFlight(s) /\ sessions[s].handler = "restore_item"
    /\ restore_item_write(sessions[s].item)
    /\ sessions' = [sessions EXCEPT ![s] = Idle]

finish_reuse_label(s) ==
    /\ InFlight(s) /\ sessions[s].handler = "reuse_label"
    /\ UploadRoom(sessions[s].form)
    /\ reuse_label_write(sessions[s].item, sessions[s].form)
    /\ sessions' = [sessions EXCEPT ![s] = Idle]

\* the forms the concurrent requests post
ConcForms(handler) ==
    CASE handler = "save_edit" -> {PlainForm, KeepForm}
      [] handler = "reuse_label" -> {PlainForm}
      [] handler = "update_amount" -> AmountForms
      [] OTHER -> {None}

NextConc ==
    \/ \E form \in ValidForms : create_item(form)
    \/ \E s \in DOMAIN sessions, handler \in SyncHandlers \cup AsyncHandlers,
          public_id \in PublicIds, today \in Days :
          \E form \in ConcForms(handler) : begin_request(s, handler, public_id, form, today)
    \/ \E s \in DOMAIN sessions : finish_save_edit(s)
    \/ \E s \in DOMAIN sessions : finish_update_amount(s)
    \/ \E s \in DOMAIN sessions : finish_soft_delete(s)
    \/ \E s \in DOMAIN sessions : finish_restore_item(s)
    \/ \E s \in DOMAIN sessions : finish_reuse_label(s)

SpecConc == Init /\ [][NextConc]_vars

-----------------------------------------------------------------------------
(* item_list: GET / (the dashboard) *)

\* StorageLocation rows by order_by(StorageLocation.name)
locations ==
    LET names == <<"Freezer", "Fridge", "Pantry">>
    IN  [k \in DOMAIN names |-> CHOOSE l \in storage_locations : l.name = names[k]]

\* the default tags by order_by(Tag.name)
default_tags ==
    LET names == <<"Prepared Meals", "Snacks">>
    IN  SelectSeq([k \in DOMAIN names |-> CHOOSE t \in tags : t.name = names[k]],
                  LAMBDA t : t.is_default)

\* a wrong subquery: the first revision of each item
latest_rev_sq_first(table) ==
    {[item_id |-> i,
      max_rev |-> CHOOSE n \in {r.revision_num : r \in RevisionsOf(table, i)} :
                     \A r \in RevisionsOf(table, i) : n <= r.revision_num] :
        i \in {r.item_id : r \in table}}

\* the subquery: func.max(revision_num) grouped by item_id
latest_rev_sq(table) ==
    {[item_id |-> i,
      max_rev |-> CHOOSE n \in {r.revision_num : r \in RevisionsOf(table, i)} :
                     \A r \in RevisionsOf(table, i) : n >= r.revision_num] :
        i \in {r.item_id : r \in table}}

\* s LIKE pattern: `%` is any run of characters, `_` any one character
RECURSIVE like(_, _)
like(s, pattern) ==
    IF pattern = <<>> THEN s = <<>>
    ELSE IF Head(pattern) = "%"
    THEN like(s, Tail(pattern)) \/ (s # <<>> /\ like(Tail(s), pattern))
    ELSE /\ s # <<>>
         /\ Head(pattern) = "_" \/ Head(pattern) = Head(s)
         /\ like(Tail(s), Tail(pattern))

\* ItemRevision.name.ilike(f"%{q}%")
ilike(name, q) == like(Lower(name), <<"%">> \o Lower(q) \o <<"%">>)

\* the rows the query selects: the join on the subquery and the three filters
item_list_query(table, q, location, show_deleted) ==
    {r \in table :
        /\ \E g \in latest_rev_sq(table) : r.item_id = g.item_id /\ r.revision_num = g.max_rev
        /\ ~show_deleted => ~r.is_deleted
        /\ q # <<>> => ilike(r.name, q)
        /\ (~IsNone(location) /\ Val(location) # 0) => r.storage_location_id = Val(location)}

\* row a comes before row b under ORDER BY expiration_date ASC.  Where NULL
\* sorts is the database's choice (first in SQLite, last in PostgreSQL); rows
\* with equal dates come in an order that is a function of the stored rows
\* (here: the primary key).
expires_before(a, b, nulls_first) ==
    IF IsNone(a.expiration_date) /\ IsNone(b.expiration_date) THEN a.id < b.id
    ELSE IF IsNone(a.expiration_date) THEN nulls_first
    ELSE IF IsNone(b.expiration_date) THEN ~nulls_first
    ELSE \/ Val(a.expiration_date) < Val(b.expiration_date)
         \/ Val(a.expiration_date) = Val(b.expiration_date) /\ a.id < b.id

\* a wrong ordering: latest expiration first
RECURSIVE order_by_expiration_date_desc(_, _)
order_by_expiration_date_desc(rows, nulls_first) ==
    IF rows = {} THEN <<>>
    ELSE LET last == CHOOSE r \in rows :
                        \A o \in rows \ {r} : expires_before(r, o, nulls_first)
         IN  order_by_expiration_date_desc(rows \ {last}, nulls_first) \o <<last>>

\* query.order_by(ItemRevision.expiration_date.asc()).all()
RECURSIVE order_by_expiration_date(_, _)
order_by_expiration_date(rows, nulls_first) ==
    IF rows = {} THEN <<>>
    ELSE LET first == CHOOSE r \in rows :
                         \A o \in rows \ {r} : expires_before(r, o, nulls_first)
         IN  <<first>> \o order_by_expiration_date(rows \ {first}, nulls_first)

\* loc_items[loc.id]: the revisions of the list stored at loc, in list order
loc_items(revisions, loc) ==
    SelectSeq(revisions, LAMBDA rev : rev.storage_location_id = loc.id)

\* the location sections: one per location that has revisions
sections(revisions) ==
    LET filled == SelectSeq(locations, LAMBDA loc : loc_items(revisions, loc) # <<>>)
    IN  [k \in DOMAIN filled |->
            [location |-> filled[k], revisions |-> loc_items(revisions, filled[k])]]

\* rev_by_item = {rev.item_id: rev for rev in revisions}: the last one stays
rev_by_item(revisions) ==
    [i \in {revisions[k].item_id : k \in DOMAIN revisions} |->
        revisions[CHOOSE k \in DOMAIN revisions :
                     /\ revisions[k].item_id = i
                     /\ \A j \in DOMAIN revisions : revisions[j].item_id = i => j <= k]]

\* tag.items: the items that carry the tag (here: by primary key)
RECURSIVE tag_items(_, _)
tag_items(assoc, tag) ==
    LET ids == {a[1] : a \in {x \in assoc : x[2] = tag.id}}
    IN  IF ids = {} THEN <<>>
        ELSE LET first == CHOOSE i \in ids : \A o \in ids : i <= o
             IN  <<first>> \o tag_items(assoc \ {<<first, tag.id>>}, tag)

\* date.max
date_max == 3652059

\* key=lambda r: r.expiration_date or date.max
expiration_or_max(r) == IF ~IsNone(r.expiration_date) THEN Val(r.expiration_date) ELSE date_max

\* list.sort(key=...): a stable sort
RECURSIVE sort_by_expiration(_)
sort_by_expiration(revs) ==
    IF revs = <<>> THEN <<>>
    ELSE LET x == revs[Len(revs)]
             sorted == sort_by_expiration(SubSeq(revs, 1, Len(revs) - 1))
             n == Cardinality({k \in DOMAIN sorted :
                                  expiration_or_max(sorted[k]) <= expiration_or_max(x)})
         IN  SubSeq(sorted, 1, n) \o <<x>> \o SubSeq(sorted, n + 1, Len(sorted))

\* a wrong tag section: cut from the latest revisions of all items, whatever
\* the filters
tag_revs_unfiltered(revisions, assoc, tag) ==
    LET all == order_by_expiration_date(item_list_query(item_revisions, <<>>, None, TRUE), TRUE)
        items == SelectSeq(tag_items(assoc, tag), LAMBDA i : i \in DOMAIN rev_by_item(all))
    IN  sort_by_expiration([k \in DOMAIN items |-> rev_by_item(all)[items[k]]])

\* tag_revs: the listed revisions of the items that carry the tag, sorted
tag_revs(revisions, assoc, tag) ==
    LET by_item == rev_by_item(revisions)
        items == SelectSeq(tag_items(assoc, tag), LAMBDA i : i \in DOMAIN by_item)
    IN  sort_by_expiration([k \in DOMAIN items |-> by_item[items[k]]])

\* the tag sections: one per default tag that has revisions
tag_sections(revisions, assoc) ==
    LET filled == SelectSeq(default_tags, LAMBDA tag : tag_revs(revisions, assoc, tag) # <<>>)
    IN  [k \in DOMAIN filled |->
            [tag |-> filled[k], revisions |-> tag_revs(revisions, assoc, filled[k])]]

\* a wrong bucket: deleted revisions are not left out
expiring_soon_any(revisions, today_) ==
    SelectSeq(revisions, LAMBDA rev :
        /\ ~IsNone(rev.expiration_date)
        /\ today_ <= Val(rev.expiration_date)
        /\ Val(rev.expiration_date) <= today_ + 3)

\* the "Expiring Soon" section: within 3 days, not expired, not deleted
expiring_soon(revisions, today_) ==
    SelectSeq(revisions, LAMBDA rev :
        /\ ~IsNone(rev.expiration_date)
        /\ ~rev.is_deleted
        /\ today_ <= Val(rev.expiration_date)
        /\ Val(rev.expiration_date) <= today_ + 3)

\* item_list; `revisions` is the query result the three groupings are cut
\* from, in one of the orders the database may return it in
item_list(q, location, show_deleted, today_) ==
    LET rows == item_list_query(item_revisions, q, location, show_deleted)
    IN  \E revisions \in {order_by_expiration_date(rows, nulls_first) :
                              nulls_first \in BOOLEAN} :
            /\ response' =
                 ListPage([q |-> q, location |-> location, show_deleted |-> show_deleted],
                          [revisions |-> revisions,
                           sections |-> sections(revisions),
                           tag_sections |-> tag_sections(revisions, item_tags),
                           expiring_soon |-> expiring_soon(revisions, today_),
                           locations |-> locations,
                           q |-> q, show_deleted |-> show_deleted, today |-> today_])
            /\ UNCHANGED <<db, made, uploads, sessions>>

\* the query parameters of the dashboard requests
Queries == {<<>>, <<"B">>}
LocationFilters == {None, Some(2)}
ListDays == {11, 14}

\* the forms of the requests made between two looks at the dashboard
DashEditForms == {KeepForm}
DashReuseForms == {PlainForm}
DashAmountForms == {[amount |-> Some(5), amount_unit |-> <<" ", "k", "g">>]}

NextDash ==
    \/ \E form \in ValidForms : create_item(form)
    \/ \E public_id \in PublicIds, form \in DashEditForms : save_edit(public_id, form)
    \/ \E public_id \in PublicIds, form \in DashAmountForms, today \in Days :
          update_amount(public_id, form, today)
    \/ \E public_id \in PublicIds, today \in Days : soft_delete(public_id, today)
    \/ \E public_id \in PublicIds : restore_item(public_id)
    \/ \E public_id \in PublicIds, form \in DashReuseForms : reuse_label(public_id, form)
    \/ \E q \in Queries, location \in LocationFilters, show_deleted \in BOOLEAN,
          today \in ListDays : item_list(q, location, show_deleted, today)

SpecDash == Init /\ [][NextDash]_vars

-----------------------------------------------------------------------------
(* Properties *)

\* the attributes of a revision that the operations carry forward
Fields(r) ==
    [name |-> r.name, date_prepared |-> r.date_prepared,
     expiration_date |-> r.expiration_date, storage_location_id |-> r.storage_location_id,
     photo_filename |-> r.photo_filename, notes |-> r.notes, amount |-> r.amount,
     amount_unit |-> r.amount_unit]

\* the row with the highest revision_num of a non-empty set of rows
HighestRevision(rows) == CHOOSE r \in rows : \A o \in rows : o.revision_num <= r.revision_num

\* the rows of an item, as stored
Chain(item_id) == RevisionsOf(item_revisions, item_id)

\* the handlers that inserted the rows of an item
HandlersOf(item_id) == {made[r.id].handler : r \in Chain(item_id)}

\* C1: with requests executed one at a time, the revision_num values of every
\* item are exactly 1..N, N the number of its revisions, and they grow in
\* creation order (the order of the primary keys): no gap, no duplicate.
C1_RevisionNumsContiguous ==
    \A i \in food_items :
        /\ {r.revision_num : r \in Chain(i)} = 1..Cardinality(Chain(i))
        /\ \A r, o \in Chain(i) : (r.id < o.id) <=> (r.revision_num < o.revision_num)

\* C1 witness: an item with three revisions, made by create, soft delete and restore
C1_Witness ==
    \E i \in food_items :
        /\ Cardinality(Chain(i)) >= 3
        /\ {"create_item", "soft_delete", "restore_item"} \subseteq HandlersOf(i)

\* C2: with appends to one item interleaved, no two committed revisions of the
\* item share a revision_num and the numbering stays contiguous.
C2_ConcurrentAppendsSerialize ==
    \A i \in food_items :
        /\ \A r, o \in Chain(i) : r.revision_num = o.revision_num => r = o
        /\ {r.revision_num : r \in Chain(i)} = 1..Cardinality(Chain(i))

\* C3: a step never changes or removes a stored revision row, nor the link
\* rows attached to it, whatever the item the step is about.
C3_PriorRevisionsImmutable ==
    [][\A r \in item_revisions :
          /\ r \in item_revisions'
          /\ LinksOf(revision_links', r.id) = LinksOf(revision_links, r.id)]_vars

\* C3 witness: a revision with links that has been superseded twice on its item
\* while another request copied from it
C3_Witness ==
    \E r \in item_revisions :
        /\ LinksOf(revision_links, r.id) # {}
        /\ Cardinality({o \in Chain(r.item_id) : o.id > r.id}) >= 2
        /\ "restore_item" \in HandlersOf(r.item_id)

\* C4: IsDeleted(item) is the is_deleted flag of the revision with the highest
\* revision_num when the item has a revision, and false for no revisions.
C4_IsDeletedIsLatestFlag ==
    /\ is_deleted(<<>>) = FALSE
    /\ \A i \in food_items : \A revs \in Orderings(Chain(i)) :
          is_deleted(revs) =
              IF Chain(i) = {} THEN FALSE ELSE HighestRevision(Chain(i)).is_deleted

\* C4 witness: a deleted item that has a revision that is not deleted
C4_Witness ==
    \E i \in food_items : \E revs \in Orderings(Chain(i)) :
        is_deleted(revs) /\ \E r \in Chain(i) : ~r.is_deleted

\* the contiguous parts of a loaded revision list, the empty list among them
Parts(revs) ==
    {SubSeq(revs, j, k) : j \in 1..(Len(revs) + 1), k \in 0..Len(revs)}

\* C5: LatestActiveRevision returns nothing exactly when every revision of the
\* list is deleted, and otherwise the non-deleted revision with the highest
\* revision_num; it never returns a deleted revision.
C5_LatestActiveNeverDeleted ==
    \A i \in food_items : \A revs \in Orderings(Chain(i)) : \A part \in Parts(revs) :
        LET active == {part[k] : k \in {j \in 1..Len(part) : ~part[j].is_deleted}}
            got == latest_active_revision(part)
        IN  /\ IsNone(got) <=> active = {}
            /\ ~IsNone(got) =>
                 /\ ~Val(got).is_deleted
                 /\ Val(got) = HighestRevision(active)

\* C5 witness: a deleted item whose latest active revision is an older one,
\* with a newer non-deleted revision before it in the chain
C5_Witness ==
    \E i \in food_items : \E revs \in Orderings(Chain(i)) :
        /\ is_deleted(revs)
        /\ ~IsNone(latest_active_revision(revs))
        /\ Val(latest_active_revision(revs)).revision_num >= 2

\* the step committed a revision through `handler`
Appended(handler) ==
    /\ Len(made') = Len(made) + 1
    /\ made'[Len(made')].handler = handler

\* the form of the request that committed in this step
PostedForm == made'[Len(made')].form

\* the number of occurrences of each element of a list
SeqContent(seq) ==
    [c \in {seq[k] : k \in 1..Len(seq)} |-> Cardinality({k \in 1..Len(seq) : seq[k] = c})]

\* LatestActiveRevision ?? LatestRevision of a non-empty set of rows
SourceOf(rows) ==
    IF \E o \in rows : ~o.is_deleted
    THEN HighestRevision({o \in rows : ~o.is_deleted})
    ELSE HighestRevision(rows)

\* the step inserted the one revision row r and changed no other row
InsertedOnly(r) ==
    /\ r \notin item_revisions
    /\ item_revisions' = item_revisions \cup {r}

\* the links of r after the step are rows that did not exist before it
FreshLinks(r) ==
    \A l \in LinksOf(revision_links', r.id) : \A o \in revision_links : o.id # l.id

\* C6: a restore appends exactly one revision, not deleted, whose fields are
\* those of LatestActiveRevision (LatestRevision when there is none) as of
\* the call, and whose links are content-equal copies, in rows of their own,
\* of the links of that source, which stay attached to the source.
C6_RestoreCopiesSource ==
    [][Appended("restore_item") =>
         \E r \in item_revisions' :
            /\ InsertedOnly(r)
            /\ ~r.is_deleted
            /\ LET source == SourceOf(Chain(r.item_id))
               IN  /\ Fields(r) = Fields(source)
                   /\ LinkContent(LinksOf(revision_links', r.id)) =
                        LinkContent(LinksOf(revision_links, source.id))
                   /\ FreshLinks(r)
                   /\ LinksOf(revision_links', source.id) =
                        LinksOf(revision_links, source.id)]_vars

\* the revision of the same item that precedes r in the numbering
Before(r) == {o \in Chain(r.item_id) : o.revision_num + 1 = r.revision_num}

\* C6 witness: a restored revision with links, the revision before it deleted
C6_Witness ==
    \E r \in item_revisions :
        /\ made[r.id].handler = "restore_item"
        /\ LinksOf(revision_links, r.id) # {}
        /\ \E o \in Before(r) : o.is_deleted

\* C7: when the revision `pre` of an item is not deleted, a soft delete made
\* the item's next revision and a restore the one after, then the restore's
\* revision is the second after `pre`, is not deleted, and has the field
\* values of `pre`.
C7_DeleteThenRestore ==
    \A pre \in item_revisions : \A del, res \in Chain(pre.item_id) :
        (/\ ~pre.is_deleted
         /\ pre.id < del.id /\ del.id < res.id
         /\ \A o \in Chain(pre.item_id) : o.id <= pre.id \/ o.id >= res.id \/ o = del
         /\ made[del.id].handler = "soft_delete"
         /\ made[res.id].handler = "restore_item")
        => /\ res.revision_num = pre.revision_num + 2
           /\ Cardinality({o \in Chain(pre.item_id) : o.revision_num <= res.revision_num}) =
                Cardinality({o \in Chain(pre.item_id) : o.revision_num <= pre.revision_num}) + 2
           /\ ~res.is_deleted
           /\ Fields(res) = Fields(pre)

\* C7 witness: an item with a quantity and a photo, deleted and then restored
C7_Witness ==
    \E pre \in item_revisions : \E del, res \in Chain(pre.item_id) :
        /\ ~pre.is_deleted /\ ~IsNone(pre.amount) /\ ~IsNone(pre.photo_filename)
        /\ del.revision_num = pre.revision_num + 1
        /\ res.revision_num = del.revision_num + 1
        /\ made[del.id].handler = "soft_delete"
        /\ made[res.id].handler = "restore_item"

\* C8: a soft delete appends exactly one revision, deleted, that carries the
\* attributes and the link set of the previous latest revision.
C8_SoftDeleteCarriesEverything ==
    [][Appended("soft_delete") =>
         \E r \in item_revisions' :
            /\ InsertedOnly(r)
            /\ r.is_deleted
            /\ LET prev == HighestRevision(Chain(r.item_id))
               IN  /\ Fields(r) = Fields(prev)
                   /\ LinkContent(LinksOf(revision_links', r.id)) =
                        LinkContent(LinksOf(revision_links, prev.id))]_vars

\* C9: a quick amount update appends exactly one revision that has the name,
\* dates, location, photo, notes and is_deleted of the previous latest
\* revision and links content-equal to its links; the amount is the posted one.
C9_AmountUpdateKeepsTheRest ==
    [][Appended("update_amount") =>
         \E r \in item_revisions' :
            /\ InsertedOnly(r)
            /\ LET prev == HighestRevision(Chain(r.item_id))
               IN  /\ [Fields(r) EXCEPT !.amount = None, !.amount_unit = None] =
                        [Fields(prev) EXCEPT !.amount = None, !.amount_unit = None]
                   /\ r.is_deleted = prev.is_deleted
                   /\ r.amount = PostedForm.amount
                   /\ LinkContent(LinksOf(revision_links', r.id)) =
                        LinkContent(LinksOf(revision_links, prev.id))
                   /\ FreshLinks(r)]_vars

\* C9 witness: an amount update changed the quantity of an item that has links
C9_Witness ==
    \E r \in item_revisions :
        /\ made[r.id].handler = "update_amount"
        /\ LinksOf(revision_links, r.id) # {}
        /\ \E o \in Before(r) : o.amount # r.amount

\* C10: a successful edit appends exactly one revision, not deleted, whose
\* links are exactly the validated links of the form, and whose photo is the
\* file just uploaded, else the previous latest revision's photo when
\* keep_photo is set, else absent.
C10_EditReplacesLinksAndPhoto ==
    [][Appended("save_edit") =>
         \E r \in item_revisions' :
            /\ InsertedOnly(r)
            /\ ~r.is_deleted
            /\ LinkContent(LinksOf(revision_links', r.id)) =
                 SeqContent(clean_links(zip(PostedForm.link_urls, PostedForm.link_labels)))
            /\ FreshLinks(r)
            /\ LET prev == HighestRevision(Chain(r.item_id))
               IN  IF HasUpload(PostedForm.photo)
                   THEN /\ ~IsNone(r.photo_filename)
                        /\ Val(r.photo_filename) \in uploads' \ uploads
                   ELSE IF PostedForm.keep_photo
                   THEN r.photo_filename = prev.photo_filename
                   ELSE IsNone(r.photo_filename)]_vars

\* C10 witness: an edit that kept the photo and replaced two links by one
C10_Witness ==
    \E r \in item_revisions :
        /\ made[r.id].handler = "save_edit"
        /\ made[r.id].form.keep_photo /\ ~HasUpload(made[r.id].form.photo)
        /\ ~IsNone(r.photo_filename)
        /\ Cardinality(LinksOf(revision_links, r.id)) = 1
        /\ \E o \in Before(r) : Cardinality(LinksOf(revision_links, o.id)) = 2

\* the fields a create, edit or reuse form asks for, the photo aside
SubmittedFields(form) ==
    [name |-> strip(form.name), date_prepared |-> form.date_prepared,
     expiration_date |-> Some(IF IsNone(form.expiration_date) THEN form.date_prepared + 7
                              ELSE Val(form.expiration_date)),
     storage_location_id |-> form.storage_location_id,
     notes |-> strip_or_none(form.notes), amount |-> form.amount,
     amount_unit |-> strip_or_none(form.amount_unit)]

\* the fields of a row, the photo aside
FieldsButPhoto(r) ==
    [name |-> r.name, date_prepared |-> r.date_prepared,
     expiration_date |-> r.expiration_date, storage_location_id |-> r.storage_location_id,
     notes |-> r.notes, amount |-> r.amount, amount_unit |-> r.amount_unit]

\* C11: a successful reuse appends exactly one revision, not deleted, whose
\* fields are the submitted ones, whose photo is the file uploaded with the
\* request or none, and whose links are the accepted submitted links in rows
\* of their own: no field, photo or link of an earlier revision is carried in.
C11_ReuseUsesFreshValuesOnly ==
    [][Appended("reuse_label") =>
         \E r \in item_revisions' :
            /\ InsertedOnly(r)
            /\ Cardinality(item_revisions') = Cardinality(item_revisions) + 1
            /\ ~r.is_deleted
            /\ FieldsButPhoto(r) = SubmittedFields(PostedForm)
            /\ IF HasUpload(PostedForm.photo)
               THEN /\ ~IsNone(r.photo_filename)
                    /\ Val(r.photo_filename) \in uploads' \ uploads
               ELSE IsNone(r.photo_filename)
            /\ LinkContent(LinksOf(revision_links', r.id)) =
                 SeqContent(clean_links(zip(PostedForm.link_urls, PostedForm.link_labels)))
            /\ FreshLinks(r)
            /\ \A l \in revision_links : l \in revision_links']_vars

\* C11 witness: a reused label without photo or link whose chain holds an
\* earlier revision with a photo and another name and one with links
C11_Witness ==
    \E r \in item_revisions :
        /\ made[r.id].handler = "reuse_label"
        /\ IsNone(r.photo_filename)
        /\ LinksOf(revision_links, r.id) = {}
        /\ \E o \in Before(r) : ~IsNone(o.photo_filename) /\ o.name # r.name
        /\ \E o \in Chain(r.item_id) :
              o.revision_num < r.revision_num /\ LinksOf(revision_links, o.id) # {}

\* the indexes of the submitted (url, label) pairs whose URL, trimmed, is
\* neither empty nor matched by URL_RE
InvalidUrlPairs(form) ==
    {k \in DOMAIN zip(form.link_urls, form.link_labels) :
        LET url == strip(form.link_urls[k])
        IN  url # <<>> /\ ~URL_RE_match(url)}

BlankName(form) == \A k \in DOMAIN form.name : IsSpace(form.name[k])

ExpirationBeforePrepared(form) ==
    ~IsNone(form.expiration_date) /\ Val(form.expiration_date) < form.date_prepared

\* a form that fails validation: blank name, expiration before preparation,
\* or an invalid URL
FailsValidation(form) ==
    BlankName(form) \/ ExpirationBeforePrepared(form) \/ InvalidUrlPairs(form) # {}

FormPages == {"items/create.html", "items/edit.html", "items/reuse.html"}

\* C12: a create, edit or reuse request whose form fails validation leaves
\* the persisted state as it was: no item, revision or link is created, no
\* row changes and the tag associations stay; no revision is ever inserted
\* for such a form.
C12_FailedValidationPersistsNothing ==
    [][/\ (response'.page \in FormPages /\ FailsValidation(response'.form))
            => (UNCHANGED db /\ UNCHANGED made)
       /\ \A h \in {"create_item", "save_edit", "reuse_label"} :
            Appended(h) => ~FailsValidation(PostedForm)]_vars

\* C12 witness: an edit was answered with the form and its errors while the
\* item it names has a revision, links and a tag
C12_Witness ==
    /\ response.page = "items/edit.html"
    /\ FailsValidation(response.form)
    /\ revision_links # {}
    /\ item_tags # {}

\* the number of entries of a list equal to e
Count(seq, e) == Cardinality({k \in DOMAIN seq : seq[k] = e})

\* the errors list holds one entry for a blank name, one for an expiration
\* before the preparation date, and one for each invalid URL of the form
ReportsEveryFailure(form, errors) ==
    /\ Count(errors, [msg |-> "Name is required.", arg |-> <<>>]) =
         (IF BlankName(form) THEN 1 ELSE 0)
    /\ Count(errors, [msg |-> "Expiration date must be on or after date prepared.",
                      arg |-> <<>>]) =
         (IF ExpirationBeforePrepared(form) THEN 1 ELSE 0)
    /\ \A k \in DOMAIN form.link_urls :
         Count(errors, [msg |-> "Invalid URL", arg |-> strip(form.link_urls[k])]) =
           Cardinality({j \in InvalidUrlPairs(form) :
                           strip(form.link_urls[j]) = strip(form.link_urls[k])})
    /\ Cardinality({k \in DOMAIN errors : errors[k].msg = "Invalid URL"}) =
         Cardinality(InvalidUrlPairs(form))

\* forms with every combination of the three kinds of failure
ProbeForms ==
    {[PlainForm EXCEPT !.name = name, !.expiration_date = exp,
                       !.link_urls = urls, !.link_labels = [k \in DOMAIN urls |-> <<"x">>]] :
        name \in {<<"a">>, <<" ", "\t">>},
        exp \in {Some(9), Some(10)},
        urls \in {<<>>, <<UrlBad, UrlGood, UrlBad>>,
                  <<UrlBlank, <<"h", "t", "t", "p", ":", "/", "/", "a">>, UrlBad>>}}

\* C13: validation never stops at the first failure: the errors of one
\* response hold one entry for a blank name, one for an expiration date
\* before the preparation date and one per invalid non-empty URL, each
\* whatever the other checks found.  (The errors of the probe forms do not
\* depend on the database; they are computed while it is empty.)
C13_ValidationReportsAllErrors ==
    /\ response.page \in FormPages => ReportsEveryFailure(response.form, response.errors)
    /\ item_revisions = {} =>
         \A form \in ProbeForms : ReportsEveryFailure(form, form_errors(form))

\* C13 witness: a response that lists a blank name, a date error and two
\* invalid URLs together
C13_Witness ==
    /\ response.page \in FormPages
    /\ BlankName(response.form)
    /\ ExpirationBeforePrepared(response.form)
    /\ Cardinality(InvalidUrlPairs(response.form)) = 2
    /\ Len(response.errors) = 4

FormHandlers == {"create_item", "save_edit", "reuse_label"}

\* C14: every revision created by create, edit or reuse stores the submitted
\* expiration date when one was given and date_prepared + 7 days when none
\* was; a submitted date before date_prepared is rejected, so the stored
\* expiration date is never before the stored date_prepared.
C14_ExpirationDefaultAndOrder ==
    /\ \A r \in item_revisions :
         made[r.id].handler \in FormHandlers =>
            LET form == made[r.id].form
            IN  /\ r.date_prepared = form.date_prepared
                /\ ~IsNone(r.expiration_date)
                /\ IF IsNone(form.expiration_date)
                   THEN Val(r.expiration_date) = r.date_prepared + 7
                   ELSE Val(r.expiration_date) = Val(form.expiration_date)
                /\ Val(r.expiration_date) >= r.date_prepared
    /\ (response.page \in FormPages /\ ExpirationBeforePrepared(response.form)) =>
         Count(response.errors, [msg |-> "Expiration date must be on or after date prepared.",
                                 arg |-> <<>>]) = 1

\* C14 witness: one revision with the submitted expiration date, one with
\* the default, after a request with an expiration before preparation was
\* rejected
C14_Witness ==
    /\ \E r \in item_revisions :
         /\ made[r.id].handler \in FormHandlers
         /\ ~IsNone(made[r.id].form.expiration_date)
    /\ \E r \in item_revisions :
         /\ made[r.id].handler \in FormHandlers
         /\ IsNone(made[r.id].form.expiration_date)
         /\ r.expiration_date = Some(r.date_prepared + 7)
    /\ response.page \in FormPages
    /\ ExpirationBeforePrepared(response.form)

\* the outcome of one submitted (url, label) pair
PairOutcome(pair) ==
    IF strip(pair[1]) = <<>> THEN "skipped"
    ELSE IF URL_RE_match(strip(pair[1])) THEN "accepted"
    ELSE "rejected"

\* the link an accepted pair yields: trimmed URL, trimmed label or none
AcceptedLink(pair) ==
    [url |-> strip(pair[1]),
     label |-> IF strip(pair[2]) = <<>> THEN None ELSE Some(strip(pair[2]))]

\* the error a rejected pair yields
RejectedError(pair) == [msg |-> "Invalid URL", arg |-> strip(pair[1])]

\* how often each value of f occurs over the indexes in idx
Tally(idx, f(_)) == [c \in {f(k) : k \in idx} |-> Cardinality({k \in idx : f(k) = c})]

ExpectedLinks(pairs) ==
    LET link(k) == AcceptedLink(pairs[k])
    IN  Tally({k \in DOMAIN pairs : PairOutcome(pairs[k]) = "accepted"}, link)

ExpectedLinkErrors(pairs) ==
    LET error(k) == RejectedError(pairs[k])
    IN  Tally({k \in DOMAIN pairs : PairOutcome(pairs[k]) = "rejected"}, error)

\* the link loop sorts every pair into one of the three outcomes
ValidatesLinks(pairs) ==
    /\ SeqContent(clean_links(pairs)) = ExpectedLinks(pairs)
    /\ SeqContent(link_errors(pairs)) = ExpectedLinkErrors(pairs)
    /\ Len(clean_links(pairs)) + Len(link_errors(pairs))
         + Cardinality({k \in DOMAIN pairs : PairOutcome(pairs[k]) = "skipped"}) = Len(pairs)

\* lists of submitted pairs: blank, well-formed and malformed URLs, mixed
ProbePairs ==
    {<<>>,
     <<<<UrlBad, <<"x">>>>, <<UrlExample, <<"Y">>>>>>,
     <<<<UrlBlank, <<"x">>>>, <<<<>>, <<>>>>, <<UrlUpper, <<" ">>>>>>,
     <<<<UrlGood, <<" ", "Y">>>>, <<UrlGood, <<"Y", " ">>>>, <<UrlBad, <<>>>>, <<UrlBad, <<"x">>>>>>,
     <<<<<<"f", "t", "p", ":", "/", "/", "a", "b">>, <<"x">>>>, <<<<"h", "t", "t", "p", ":", "/", "/">>, <<"x">>>>,
       <<<<"h", "t", "t", "p", "s", ":", "/", "/", "/", "x">>, <<"x">>>>, <<<<"h", "t", "t", "p", ":", "/", "/", "a", "b">>, <<>>>>>>}

\* C15: link validation puts every submitted (url, label) pair in exactly
\* one of three outcomes: a URL empty after trimming is skipped without an
\* error; a trimmed URL that is a well-formed http/https URL is accepted as
\* (trimmed url, trimmed label, none when blank); any other URL yields
\* exactly one error and no link.  (The outcomes of the probe lists do not
\* depend on the database; they are computed while it is empty.)
C15_LinkValidationOutcomes ==
    /\ \A r \in item_revisions :
         made[r.id].handler \in FormHandlers =>
            LET pairs == zip(made[r.id].form.link_urls, made[r.id].form.link_labels)
            IN  /\ LinkContent(LinksOf(revision_links, r.id)) = ExpectedLinks(pairs)
                /\ ExpectedLinkErrors(pairs) = <<>>
    /\ response.page \in FormPages =>
         LET pairs == zip(response.form.link_urls, response.form.link_labels)
             shown == {k \in DOMAIN response.errors : response.errors[k].msg = "Invalid URL"}
             error(k) == response.errors[k]
         IN  Tally(shown, error) = ExpectedLinkErrors(pairs)
    /\ item_revisions = {} =>
         /\ \A pairs \in ProbePairs : ValidatesLinks(pairs)
         /\ clean_links(<<<<UrlBad, <<"x">>>>, <<UrlExample, <<"Y">>>>>>) =
              <<[url |-> <<"h", "t", "t", "p", "s", ":", "/", "/", "a", ".", "t", "e", "s", "t", "/", "b">>, label |-> Some(<<"Y">>)]>>
         /\ link_errors(<<<<UrlBad, <<"x">>>>, <<UrlExample, <<"Y">>>>>>) =
              <<[msg |-> "Invalid URL", arg |-> UrlBad]>>
         /\ \A url \in {<<"f", "t", "p", ":", "/", "/", "a", "b">>, <<"h", "t", "t", "p", ":", "/", "/">>, <<"h", "t", "t", "p", "s", ":", "/", "/", "/", "x">>} :
              PairOutcome(<<url, <<>>>>) = "rejected"

\* C15 witness: a stored revision whose form held a skipped pair, a pair
\* accepted with its label trimmed and a pair accepted with a blank label,
\* and a response that reports an invalid URL of a form with a valid one
C15_Witness ==
    /\ \E r \in item_revisions :
         /\ made[r.id].handler \in FormHandlers
         /\ LET pairs == zip(made[r.id].form.link_urls, made[r.id].form.link_labels)
            IN  /\ \E k \in DOMAIN pairs : PairOutcome(pairs[k]) = "skipped"
                /\ \E k \in DOMAIN pairs :
                      /\ PairOutcome(pairs[k]) = "accepted"
                      /\ AcceptedLink(pairs[k]).label # Some(pairs[k][2])
                      /\ \E l \in LinksOf(revision_links, r.id) :
                            l.url = AcceptedLink(pairs[k]).url
                            /\ l.label = AcceptedLink(pairs[k]).label
                /\ \E l \in LinksOf(revision_links, r.id) : IsNone(l.label)
    /\ response.page \in FormPages
    /\ LET pairs == zip(response.form.link_urls, response.form.link_labels)
       IN  /\ \E k \in DOMAIN pairs : PairOutcome(pairs[k]) = "rejected"
           /\ \E k \in DOMAIN pairs : PairOutcome(pairs[k]) = "accepted"

\* C16: a create whose storage_location_id resolves to no StorageLocation
\* persists nothing and is answered as not found, so every revision
\* references an existing StorageLocation.
C16_LocationExists ==
    /\ \A r \in item_revisions : r.storage_location_id \in location_ids
    /\ \A k \in DOMAIN made :
         made[k].handler = "create_item" => made[k].form.storage_location_id \in location_ids
    /\ response.status # 500

\* the response is a dashboard page
Listed == response.page = "items/list.html"

\* the elements of a list
Range(seq) == {seq[k] : k \in DOMAIN seq}

\* the revisions the dashboard query returned
DashboardList == response.context.revisions

\* C17: whatever the text query, the location filter and show_deleted, and
\* whatever happened before, every revision in the dashboard list is the
\* latest revision (highest revision_num) of its item, and no item has two
\* revisions in the list.
C17_DashboardListsLatestOnly ==
    Listed =>
        /\ \A k \in DOMAIN DashboardList :
             /\ DashboardList[k] \in item_revisions
             /\ \A o \in Chain(DashboardList[k].item_id) :
                  o.revision_num <= DashboardList[k].revision_num
        /\ \A j, k \in DOMAIN DashboardList :
             DashboardList[j].item_id = DashboardList[k].item_id => j = k

\* C17 witness: a dashboard that lists two items, one of them by its second
\* revision
C17_Witness ==
    /\ Listed
    /\ Len(DashboardList) = 2
    /\ \E k \in DOMAIN DashboardList : DashboardList[k].revision_num = 2

\* C18: the "expiring soon" bucket holds no revision of a deleted item,
\* show_deleted or not, and only revisions with an expiration date d such
\* that today <= d <= today + 3.
C18_ExpiringSoonBucket ==
    Listed =>
        \A k \in DOMAIN response.context.expiring_soon :
            LET rev == response.context.expiring_soon[k]
            IN  /\ ~HighestRevision(Chain(rev.item_id)).is_deleted
                /\ ~rev.is_deleted
                /\ ~IsNone(rev.expiration_date)
                /\ response.context.today <= Val(rev.expiration_date)
                /\ Val(rev.expiration_date) <= response.context.today + 3

\* C18 witness: with show_deleted the list holds a deleted and a live
\* revision that both expire within three days; only the live one is in the
\* bucket
C18_Witness ==
    /\ Listed
    /\ response.form.show_deleted
    /\ Len(response.context.expiring_soon) = 1
    /\ \E k \in DOMAIN DashboardList :
         /\ DashboardList[k].is_deleted
         /\ ~IsNone(DashboardList[k].expiration_date)
         /\ response.context.today <= Val(DashboardList[k].expiration_date)
         /\ Val(DashboardList[k].expiration_date) <= response.context.today + 3

\* the dashboard list is in ascending order of expiration date, the
\* revisions without one last
ListInOrder ==
    \A j, k \in DOMAIN DashboardList :
        j < k =>
           \/ IsNone(DashboardList[k].expiration_date)
           \/ /\ ~IsNone(DashboardList[j].expiration_date)
              /\ Val(DashboardList[j].expiration_date) <= Val(DashboardList[k].expiration_date)

NoNullExpiration == \A r \in item_revisions : ~IsNone(r.expiration_date)

\* the revisions of the sections whose key (location or tag) is x
SectionRevisions(secs, field, x) ==
    UNION {Range(secs[k].revisions) : k \in {j \in DOMAIN secs : secs[j][field] = x}}

\* no list of a section is empty or holds a revision twice, and no key has
\* two sections
WellFormedSections(secs, field) ==
    /\ \A k \in DOMAIN secs :
         /\ secs[k].revisions # <<>>
         /\ Cardinality(Range(secs[k].revisions)) = Len(secs[k].revisions)
    /\ \A j, k \in DOMAIN secs : secs[j][field] = secs[k][field] => j = k

\* C20: the groupings are cut from the one filtered list: the section of a
\* location holds exactly the listed revisions stored there, the section of
\* a default tag exactly the listed revisions whose item carries the tag,
\* there is no section for a location or tag without any, and no grouping
\* holds a revision that is not in the list.
C20_GroupingsOverTheList ==
    Listed =>
        LET view == response.context
        IN  /\ WellFormedSections(view.sections, "location")
            /\ WellFormedSections(view.tag_sections, "tag")
            /\ \A k \in DOMAIN view.sections : view.sections[k].location \in storage_locations
            /\ \A k \in DOMAIN view.tag_sections :
                 view.tag_sections[k].tag \in {t \in tags : t.is_default}
            /\ \A loc \in storage_locations :
                 SectionRevisions(view.sections, "location", loc) =
                   {rev \in Range(view.revisions) : rev.storage_location_id = loc.id}
            /\ \A tag \in {t \in tags : t.is_default} :
                 SectionRevisions(view.tag_sections, "tag", tag) =
                   {rev \in Range(view.revisions) : <<rev.item_id, tag.id>> \in item_tags}
            /\ Range(view.expiring_soon) \subseteq Range(view.revisions)

\* C20 witness: a filter leaves out a tagged item; the list has one section
\* for a location and one for a tag, and one location and one tag have none
C20_Witness ==
    /\ Listed
    /\ Len(response.context.sections) = 1
    /\ Len(response.context.tag_sections) = 1
    /\ \E a \in item_tags : \A k \in DOMAIN DashboardList : DashboardList[k].item_id # a[1]

\* the association rows of one item
TagsOf(table, item_id) == {x \in table : x[1] = item_id}

\* C21: a create is atomic: the item, its revision 1, its links and its tag
\* associations appear in one step or not at all; a create that fails after
\* the item row was allocated leaves nothing in the tables, and no state
\* holds an item without a revision.
C21_CreateIsAtomic ==
    /\ [](\A i \in food_items : Chain(i) # {})
    /\ [][/\ (food_items' # food_items \/ Appended("create_item")) =>
               \E r \in item_revisions' :
                  /\ InsertedOnly(r)
                  /\ r.revision_num = 1
                  /\ r.item_id \notin food_items
                  /\ food_items' = food_items \cup {r.item_id}
                  /\ Appended("create_item")
                  /\ LinkContent(LinksOf(revision_links', r.id)) =
                       SeqContent(clean_links(zip(PostedForm.link_urls,
                                                  PostedForm.link_labels)))
                  /\ {x[2] : x \in TagsOf(item_tags', r.item_id)} =
                       {t.id : t \in tags} \cap Range(PostedForm.tag_ids)
                  /\ \A i \in food_items : TagsOf(item_tags', i) = TagsOf(item_tags, i)
           /\ response'.status = 500 => UNCHANGED db]_vars

\* C21 witness: a create failed at the commit, after its photo was stored
\* and its item row allocated, and the tables hold the items created before
C21_Witness ==
    /\ response.status = 500
    /\ uploads # {}
    /\ food_items # {}
    /\ Cardinality(food_items) = Cardinality({r \in item_revisions : r.revision_num = 1})

\* C22: with appends to one item interleaved, a conflicting append is
\* retried with a recomputed number, so every revision a request commits has
\* a revision_num that no other revision of its item has.
C22_ConflictingAppendRetried ==
    [][\A r \in item_revisions' \ item_revisions :
          \A o \in item_revisions :
              o.item_id = r.item_id => o.revision_num # r.revision_num]_vars

\* C23: a create, edit or reuse request that is rejected for a blank name, an
\* expiration before the preparation date or an invalid URL has saved no
\* photo in the photo store.
C23_RejectedRequestStoresNoPhoto ==
    [][(response'.page \in FormPages /\ FailsValidation(response'.form))
         => uploads' = uploads]_vars

\* the ids among the submitted tag_ids that name a Tag row
SubmittedTags(form) == {t.id : t \in tags} \cap Range(form.tag_ids)

\* the tags of every item but item_id stay as they are
OtherTagsKept(item_id) ==
    {x \in item_tags' : x[1] # item_id} = {x \in item_tags : x[1] # item_id}

\* C24: the tag associations of an item are current state outside the
\* revision chain: soft delete, restore, amount update and reuse leave them
\* as they are, as does every request that stores nothing; a create gives
\* the new item the submitted tags that exist, and a successful edit
\* replaces the tags of its item by exactly the submitted tags that exist,
\* none when none is submitted.
C24_TagsOutsideTheChain ==
    [][/\ \A h \in {"soft_delete", "restore_item", "update_amount", "reuse_label"} :
            Appended(h) => item_tags' = item_tags
       /\ made' = made => item_tags' = item_tags
       /\ \A h \in {"create_item", "save_edit"} :
            Appended(h) =>
               \E r \in item_revisions' :
                  /\ InsertedOnly(r)
                  /\ {x[2] : x \in TagsOf(item_tags', r.item_id)} = SubmittedTags(PostedForm)
                  /\ OtherTagsKept(r.item_id)]_vars

\* C24 witness: an item created with one tag, edited to another and then
\* deleted carries the tag of the edit
C24_Witness ==
    \E i \in food_items :
        /\ \E r \in Chain(i) :
              /\ made[r.id].handler = "create_item"
              /\ SubmittedTags(made[r.id].form) = {2}
        /\ \E r \in Chain(i) :
              /\ made[r.id].handler = "save_edit"
              /\ SubmittedTags(made[r.id].form) = {1}
              /\ \E o \in Chain(i) :
                    o.revision_num > r.revision_num /\ made[o.id].handler = "soft_delete"
        /\ TagsOf(item_tags, i) = {<<i, 1>>}

\* C25: a reuse is applied only to a deleted item: a reuse request appends a
\* revision only when the latest revision of the item was a deleted one.
C25_ReuseOnlyWhenDeleted ==
    [][Appended("reuse_label") =>
         \E r \in item_revisions' :
            /\ InsertedOnly(r)
            /\ HighestRevision(Chain(r.item_id)).is_deleted]_vars

\* C26: in every state the handlers reach one request at a time, every item
\* has a revision 1 and it is not deleted, so every loaded item has a latest
\* and a latest active revision; the fallbacks for an item without
\* revisions are never taken: a restore always finds its source and no
\* revision carries the placeholder name "Unknown".
C26_ItemsKeepALiveFirstRevision ==
    /\ \A i \in food_items :
         /\ \E r \in Chain(i) : r.revision_num = 1
         /\ \A r \in Chain(i) : r.revision_num = 1 => ~r.is_deleted
         /\ \A item \in get_item(i) :
              /\ ~IsNone(latest_revision(item.revisions))
              /\ ~IsNone(latest_active_revision(item.revisions))
              /\ ~IsNone(restore_source(item))
    /\ \A r \in item_revisions : r.name # Unknown
    /\ \A k \in DOMAIN made :
         made[k].handler = "create_item" <=>
            \E r \in item_revisions : r.id = k /\ r.revision_num = 1

\* C26 witness: an item deleted twice in a row, whose only revision that is
\* not deleted is revision 1
C26_Witness ==
    \E i \in food_items :
        /\ Cardinality(Chain(i)) = 3
        /\ \A r \in Chain(i) : r.is_deleted <=> r.revision_num > 1
        /\ \A item \in get_item(i) :
              Val(latest_active_revision(item.revisions)).revision_num = 1

====
